---- MODULE Spec2Model ----
(***************************************************************************)
(* A model of the geoglows integration layer:                              *)
(*   src/src/mcp/geoglows_mcp_server.py  the four-tool data proxy          *)
(*   src/src/agents/agent.py             the data sub-agent, plot tool and  *)
(*                                       root agent                        *)
(*                                                                         *)
(* Values of the Python program are modelled as tagged cells [t, v]:       *)
(*   Timestamp  an instant v (two instants per calendar day)               *)
(*   NaT        the missing timestamp                                      *)
(*   float      a flow value                                               *)
(*   isostr     a str holding the ISO-8601 text of instant v               *)
(*   str        any other str                                              *)
(*   None       Python's None                                              *)
(* A call's result is an outcome: a normal return of a value, or a raised  *)
(* exception named by its class.                                           *)
(***************************************************************************)
EXTENDS Integers, Sequences, FiniteSets, TLC

VARIABLES
    call,       \* the MCP server's call in flight: request, upstream answer, response
    retained,   \* the frames reachable from the server module's globals between calls
    served,     \* how many responses the server has sent (saturating at MaxCalls)
    state,      \* the ADK session state: the value under 'streamflow_out', or absent
    artifacts,  \* the artifact store: the parts saved so far, in order
    figure,     \* pyplot's current figure: the elements drawn on it
    tool        \* the root agent's tool invocation in flight and what it did

vars == <<call, retained, served, state, artifacts, figure, tool>>

----------------------------------------------------------------------------
(* Bounds of the model.                                                    *)

MaxRows == 2

MaxDay == 1

MaxArtifacts == 1

MaxCalls == 2

----------------------------------------------------------------------------
(* Python values.                                                          *)

Ts(n) == [t |-> "Timestamp", v |-> n]

NaT == [t |-> "NaT", v |-> 0]

Float(n) == [t |-> "float", v |-> n]

PyNone == [t |-> "None", v |-> 0]

Ok(x) == [ok |-> TRUE, val |-> x, err |-> "-"]

Raise(e) == [ok |-> FALSE, val |-> <<>>, err |-> e]

Instants == 0 .. (2 * MaxDay + 1)

Days == 0 .. MaxDay

\* Sequences over S of length at most n.
RECURSIVE SeqsUpTo(_, _)
SeqsUpTo(S, n) ==
    IF n = 0 THEN {<<>>}
    ELSE LET shorter == SeqsUpTo(S, n - 1)
         IN  shorter \cup {Append(s, x) : s \in {q \in shorter : Len(q) = n - 1}, x \in S}

Increasing(s) == \A i \in 1 .. Len(s) - 1 : s[i] < s[i + 1]

RECURSIVE SelectIdx(_, _, _)
\* The positions i of 1..n, in order, for which keep[i] holds.
SelectIdx(keep, i, n) ==
    IF i > n THEN <<>>
    ELSE IF keep[i] THEN <<i>> \o SelectIdx(keep, i + 1, n)
    ELSE SelectIdx(keep, i + 1, n)

----------------------------------------------------------------------------
(* pandas: a Series is [name, dtype, vals]; a DataFrame is an index        *)
(* Series and a sequence of column Series of the same length.              *)

Series(name, dtype, vals) == [name |-> name, dtype |-> dtype, vals |-> vals]

DataFrame(index, cols) == [index |-> index, cols |-> cols]

NRows(df) == Len(df.index.vals)

ColumnNames(df) == {df.cols[i].name : i \in 1 .. Len(df.cols)}

\* pandas.api.types.is_datetime64_any_dtype: naive and tz-aware datetime64.
is_datetime64_any_dtype(s) == s.dtype \in {"datetime64[ns]", "datetime64[ns, UTC]"}

\* Timestamp.isoformat(): the ISO-8601 text of the instant.
isoformat(x) == [t |-> "isostr", v |-> x.v]

\* pd.notna
notna(x) == x.t \notin {"NaT", "None"}

\* DataFrame.reset_index(): the index becomes the first column, named by the
\* index name, or 'index' when it has none; a name already used by a column
\* raises ValueError.
reset_index(df) ==
    LET name == IF df.index.name = "" THEN "index" ELSE df.index.name
    IN  IF name \in ColumnNames(df)
        THEN Raise("ValueError")
        ELSE Ok(DataFrame(Series("", "int64", [i \in 1 .. NRows(df) |-> Float(i - 1)]),
                          <<Series(name, df.index.dtype, df.index.vals)>> \o df.cols))

\* ApplyIso without the pd.notna test: every value is formatted.
ApplyIsoUnguarded(s) ==
    Series(s.name, "object", [i \in 1 .. Len(s.vals) |-> isoformat(s.vals[i])])

\* Series.apply(lambda x: x.isoformat() if pd.notna(x) else None)
ApplyIso(s) ==
    Series(s.name, "object",
           [i \in 1 .. Len(s.vals) |->
               IF notna(s.vals[i]) THEN isoformat(s.vals[i]) ELSE PyNone])

\* DataFrame.to_dict(orient="records"): one dict per row, keys in column order.
to_dict_records(df) ==
    [i \in 1 .. NRows(df) |->
        [j \in 1 .. Len(df.cols) |-> [k |-> df.cols[j].name, v |-> df.cols[j].vals[i]]]]

\* df[mask]: the rows whose position is kept, in order.
FilterRows(df, keep) ==
    LET idx == SelectIdx(keep, 1, NRows(df))
        pick(s) == Series(s.name, s.dtype, [i \in 1 .. Len(idx) |-> s.vals[idx[i]]])
    IN  DataFrame(pick(df.index), [j \in 1 .. Len(df.cols) |-> pick(df.cols[j])])

dataframe_to_json_serializable(df) ==
    LET df_copy == reset_index(df)
    IN  IF ~df_copy.ok THEN df_copy
        ELSE Ok(to_dict_records(
                 DataFrame(df_copy.val.index,
                           [j \in 1 .. Len(df_copy.val.cols) |->
                               IF is_datetime64_any_dtype(df_copy.val.cols[j])
                               THEN ApplyIso(df_copy.val.cols[j])
                               ELSE df_copy.val.cols[j]])))

----------------------------------------------------------------------------
(* json: a JSON text is modelled by the document it spells, in JSON's own  *)
(* types (string, number, null, array, object); a text that spells no      *)
(* document is [kind |-> "garbage"].                                       *)

JsonCell(x) ==
    CASE x.t = "float"  -> [t |-> "number", v |-> x.v]
      [] x.t = "isostr" -> [t |-> "string:iso", v |-> x.v]
      [] x.t = "str"    -> [t |-> "string", v |-> x.v]
      [] x.t = "None"   -> [t |-> "null", v |-> 0]

Serializable(x) == x.t \in {"float", "isostr", "str", "None"}

\* json.dumps(records, indent=2): a Timestamp or NaT is not JSON serializable.
json_dumps_records(records) ==
    IF \E i \in 1 .. Len(records) : \E j \in 1 .. Len(records[i]) :
           ~Serializable(records[i][j].v)
    THEN Raise("TypeError")
    ELSE Ok([kind |-> "array",
             items |-> [i \in 1 .. Len(records) |->
                          [j \in 1 .. Len(records[i]) |->
                              [k |-> records[i][j].k, v |-> JsonCell(records[i][j].v)]]]])

----------------------------------------------------------------------------
(* Tool arguments: an optional date string is None, the empty string, the  *)
(* YYYYMMDD text of a day, or a text that is no date.                      *)

ArgNone == [t |-> "None", v |-> 0]

ArgEmpty == [t |-> "empty", v |-> 0]

ArgBad == [t |-> "notadate", v |-> 0]

ArgDate(d) == [t |-> "date", v |-> d]

DateArgs == {ArgNone, ArgEmpty, ArgBad} \cup {ArgDate(d) : d \in Days}

\* Python truthiness of an Optional[str]: None and '' are falsy.
Truthy(a) == a.t \notin {"None", "empty"}

\* pd.to_datetime(text, utc=True): midnight UTC of the day; a text that is no
\* date raises ValueError.
to_datetime(a) == IF a.t = "date" THEN Ok(Ts(2 * a.v)) ELSE Raise("ValueError")

RiverIds == {7, 8}

ToolOpNames ==
    {"get_forecasted_streamflow", "get_historical_streamflow",
     "get_forecast_stats", "get_return_periods"}

\* str(river_id): the column label of a reach.
ReachColumn(river_id) == ToString(river_id)

----------------------------------------------------------------------------
(* geoglows.data: what the upstream library may answer.  A frame has the   *)
(* library's columns for the request and a time index of increasing        *)
(* instants; the flow of a row is tied to its instant.                     *)

LibraryErrors == {"HTTPError", "ValueError"}

TimeIndexes == {s \in SeqsUpTo(Instants, MaxRows) : Increasing(s)}

TimeFrame(tz, idx, names) ==
    DataFrame(Series("time", IF tz THEN "datetime64[ns, UTC]" ELSE "datetime64[ns]",
                     [i \in 1 .. Len(idx) |-> Ts(idx[i])]),
              [j \in 1 .. Len(names) |->
                  Series(names[j], "float64", [i \in 1 .. Len(idx) |-> Float(idx[i] + j)])])

ForecastColumns == <<"flow_uncertainty_upper", "flow_median", "flow_uncertainty_lower">>

StatsColumns ==
    <<"flow_min", "flow_25p", "flow_avg", "flow_med", "flow_75p", "flow_max", "high_res">>

ReturnPeriodYears == <<2, 5, 10, 25, 50, 100>>

Failures == {Raise(e) : e \in LibraryErrors}

\* data.forecast(river_id, date, format="df")
data_forecast(river_id) ==
    Failures \cup {Ok(TimeFrame(TRUE, idx, ForecastColumns)) : idx \in TimeIndexes}

\* data.retrospective(river_id, format="df")
data_retrospective(river_id) ==
    Failures \cup {Ok(TimeFrame(TRUE, idx, <<ReachColumn(river_id)>>)) : idx \in TimeIndexes}

\* data.forecast_stats(river_id, date, format="df")
data_forecast_stats(river_id) ==
    Failures \cup {Ok(TimeFrame(TRUE, idx, StatsColumns)) : idx \in TimeIndexes}

\* data.return_periods(river_id, format="df"): one column per reach, one row
\* per recurrence interval.
data_return_periods(river_id) ==
    Failures \cup
    {Ok(DataFrame(Series("return_period", "int64",
                         [i \in 1 .. Len(ReturnPeriodYears) |-> Float(ReturnPeriodYears[i])]),
                  <<Series(ReachColumn(river_id), "float64",
                           [i \in 1 .. Len(ReturnPeriodYears) |-> Float(i)])>>))}

\* DataFrame.to_json(): the object text {column: {index: value}}.
to_json(df) ==
    Ok([kind |-> "object",
        items |-> [j \in 1 .. Len(df.cols) |->
                     [k |-> df.cols[j].name,
                      v |-> [i \in 1 .. NRows(df) |->
                               [k |-> df.index.vals[i].v,
                                v |-> [t |-> "number", v |-> df.cols[j].vals[i].v]]]]]])

----------------------------------------------------------------------------
(* The tool operations of the server.  Each takes what the module retains  *)
(* from earlier calls (mem) and the upstream answer (up), and gives the    *)
(* response (out) and what the module retains afterwards (mem).            *)

\* df[df.index >= bound] / df[df.index <= bound]: comparing a tz-naive index
\* with the tz-aware bound raises TypeError; NaT compares false.
FilterFrom(df, bound) ==
    IF df.index.dtype # "datetime64[ns, UTC]" THEN Raise("TypeError")
    ELSE Ok(FilterRows(df, [i \in 1 .. NRows(df) |->
                df.index.vals[i].t = "Timestamp" /\ df.index.vals[i].v >= bound.v]))

\* FilterUntil with the end bound excluded.
FilterUntilExclusive(df, bound) ==
    IF df.index.dtype # "datetime64[ns, UTC]" THEN Raise("TypeError")
    ELSE Ok(FilterRows(df, [i \in 1 .. NRows(df) |->
                df.index.vals[i].t = "Timestamp" /\ df.index.vals[i].v < bound.v]))

FilterUntil(df, bound) ==
    IF df.index.dtype # "datetime64[ns, UTC]" THEN Raise("TypeError")
    ELSE Ok(FilterRows(df, [i \in 1 .. NRows(df) |->
                df.index.vals[i].t = "Timestamp" /\ df.index.vals[i].v <= bound.v]))

\* json.dumps(dataframe_to_json_serializable(df), indent=2)
DumpFrame(df) ==
    LET records == dataframe_to_json_serializable(df)
    IN  IF records.ok THEN json_dumps_records(records.val) ELSE records

\* get_forecasted_streamflow keeping each reach's first response in a
\* module-level cache and answering later calls from it.
get_forecasted_streamflow_cached(mem, river_id, date, up) ==
    IF \E e \in mem : e.river_id = river_id
    THEN [out |-> (CHOOSE e \in mem : e.river_id = river_id).out, mem |-> mem]
    ELSE LET out == IF up.ok THEN DumpFrame(up.val) ELSE up
         IN  [out |-> out, mem |-> mem \cup {[river_id |-> river_id, out |-> out]}]

get_forecasted_streamflow(mem, river_id, date, up) ==
    [out |-> IF up.ok THEN DumpFrame(up.val) ELSE up, mem |-> mem]

get_historical_streamflow(mem, river_id, start_date, end_date, up) ==
    LET lo == to_datetime(start_date)
        hi == to_datetime(end_date)
        df1 == IF ~Truthy(start_date) THEN up
               ELSE IF ~lo.ok THEN lo
               ELSE FilterFrom(up.val, lo.val)
        df2 == IF ~df1.ok \/ ~Truthy(end_date) THEN df1
               ELSE IF ~hi.ok THEN hi
               ELSE FilterUntil(df1.val, hi.val)
    IN  [out |-> IF ~up.ok THEN up
                 ELSE IF ~df2.ok THEN df2
                 ELSE DumpFrame(df2.val),
         mem |-> mem]

\* get_forecast_stats answering an upstream failure with an empty list.
get_forecast_stats_guarded(mem, river_id, date, up) ==
    [out |-> IF up.ok THEN DumpFrame(up.val) ELSE Ok([kind |-> "array", items |-> <<>>]),
     mem |-> mem]

get_forecast_stats(mem, river_id, date, up) ==
    [out |-> IF up.ok THEN DumpFrame(up.val) ELSE up, mem |-> mem]

get_return_periods(mem, river_id, up) ==
    [out |-> IF up.ok THEN to_json(up.val) ELSE up, mem |-> mem]

----------------------------------------------------------------------------
(* The server's request/response cycle.                                    *)

Request(op, river_id, a, b, up) ==
    [op |-> op, river_id |-> river_id, a |-> a, b |-> b, up |-> up]

NoCall == [op |-> "idle"]

Answer(req, r) == [op |-> req.op, req |-> req, out |-> r.out]

CallForecast ==
    /\ call = NoCall
    /\ \E river_id \in RiverIds, date \in {ArgNone} \cup {ArgDate(d) : d \in Days} :
       \E up \in data_forecast(river_id) :
          LET r == get_forecasted_streamflow(retained, river_id, date, up)
          IN  /\ call' = Answer(Request("get_forecasted_streamflow", river_id, date, ArgNone, up), r)
              /\ retained' = r.mem
    /\ UNCHANGED <<served, state, artifacts, figure, tool>>

CallHistorical ==
    /\ call = NoCall
    /\ \E river_id \in RiverIds, start_date \in DateArgs, end_date \in DateArgs :
       \E up \in data_retrospective(river_id) :
          LET r == get_historical_streamflow(retained, river_id, start_date, end_date, up)
          IN  /\ call' = Answer(Request("get_historical_streamflow", river_id,
                                        start_date, end_date, up), r)
              /\ retained' = r.mem
    /\ UNCHANGED <<served, state, artifacts, figure, tool>>

CallStats ==
    /\ call = NoCall
    /\ \E river_id \in RiverIds, date \in {ArgNone} \cup {ArgDate(d) : d \in Days} :
       \E up \in data_forecast_stats(river_id) :
          LET r == get_forecast_stats(retained, river_id, date, up)
          IN  /\ call' = Answer(Request("get_forecast_stats", river_id, date, ArgNone, up), r)
              /\ retained' = r.mem
    /\ UNCHANGED <<served, state, artifacts, figure, tool>>

CallReturnPeriods ==
    /\ call = NoCall
    /\ \E river_id \in RiverIds :
       \E up \in data_return_periods(river_id) :
          LET r == get_return_periods(retained, river_id, up)
          IN  /\ call' = Answer(Request("get_return_periods", river_id, ArgNone, ArgNone, up), r)
              /\ retained' = r.mem
    /\ UNCHANGED <<served, state, artifacts, figure, tool>>

\* Frames for a direct use of dataframe_to_json_serializable: a named or
\* unnamed index, a datetime column with missing values, a float column and an
\* object column; in the last shape the index name collides with a column.
RowValues ==
    [i : {Ts(0), Ts(1), NaT}, w : {Ts(2), NaT}, n : {[t |-> "str", v |-> 5], PyNone}]

AnyFrame(shape, rows) ==
    LET n == Len(rows)
        index == CASE shape = "named" ->
                        Series("time", "datetime64[ns, UTC]", [i \in 1 .. n |-> rows[i].i])
                   [] shape = "unnamed" ->
                        Series("", "int64", [i \in 1 .. n |-> Float(i - 1)])
                   [] shape = "collision" ->
                        Series("when", "datetime64[ns, UTC]", [i \in 1 .. n |-> rows[i].i])
    IN  DataFrame(index,
                  <<Series("when", "datetime64[ns]", [i \in 1 .. n |-> rows[i].w]),
                    Series("flow", "float64", [i \in 1 .. n |-> Float(i)]),
                    Series("note", "object", [i \in 1 .. n |-> rows[i].n])>>)

AnyFrames ==
    {AnyFrame(shape, rows) :
        shape \in {"named", "unnamed", "collision"}, rows \in SeqsUpTo(RowValues, MaxRows)}

CallConvert ==
    /\ call = NoCall
    /\ \E df \in AnyFrames :
          call' = [op |-> "dataframe_to_json_serializable", req |-> [df |-> df],
                   out |-> dataframe_to_json_serializable(df)]
    /\ UNCHANGED <<retained, served, state, artifacts, figure, tool>>

\* The response leaves the server; the call's locals are gone.
Respond ==
    /\ call # NoCall
    /\ call' = NoCall
    /\ served' = IF served < MaxCalls THEN served + 1 ELSE served
    /\ UNCHANGED <<retained, state, artifacts, figure, tool>>

Absent == [kind |-> "absent"]

NoTool == [name |-> "none"]

Init ==
    /\ call = NoCall
    /\ retained = {}
    /\ served = 0
    /\ state = Absent
    /\ artifacts = <<>>
    /\ figure = {}
    /\ tool = NoTool

ServerNext ==
    \/ CallConvert
    \/ CallForecast
    \/ CallHistorical
    \/ CallStats
    \/ CallReturnPeriods
    \/ Respond

ServerSpec == Init /\ [][ServerNext]_vars

----------------------------------------------------------------------------
(* Python dicts and json for the sub-agent's response.  A dict is a        *)
(* sequence of [k, v] items in insertion order; scalar values are cells    *)
(* [t, v] with t one of str, int.                                          *)

PyStr(x) == [t |-> "str", v |-> x]

PyInt(n) == [t |-> "int", v |-> n]

\* d[key]
GetItem(d, key) ==
    IF \E i \in 1 .. Len(d) : d[i].k = key
    THEN Ok(d[CHOOSE i \in 1 .. Len(d) : d[i].k = key].v)
    ELSE Raise("KeyError")

\* GeoglowsAgentOutput(...).model_dump()
GeoglowsAgentOutput(data_request, reach_id, data) ==
    <<[k |-> "data_request", v |-> PyStr(data_request)],
      [k |-> "reach_id", v |-> PyInt(reach_id)],
      [k |-> "data", v |-> PyStr(data)]>>

GarbageText == [kind |-> "garbage"]

\* The JSON spelling of a scalar: a str is a string, an int a number.
JsonScalar(x) == IF x.t = "int" THEN [t |-> "number", v |-> x.v] ELSE [t |-> "string", v |-> x.v]

\* A decoder that reads every JSON number as a float.
PyScalarAsFloat(x) ==
    IF x.t = "number" THEN [t |-> "float", v |-> x.v] ELSE [t |-> "str", v |-> x.v]

\* What json.loads makes of a JSON scalar: a whole number is an int.
PyScalar(x) == IF x.t = "number" THEN [t |-> "int", v |-> x.v] ELSE [t |-> "str", v |-> x.v]

\* str(x) of an int or a float.
PyStrOf(x) == IF x.t = "float" THEN ToString(x.v) \o ".0" ELSE ToString(x.v)

\* json.dumps of the response dict: the object text.
json_dumps_dict(d) ==
    [kind |-> "object", items |-> [i \in 1 .. Len(d) |-> [k |-> d[i].k, v |-> JsonScalar(d[i].v)]]]

\* json.loads of a text holding the response: the dict, or JSONDecodeError.
json_loads_dict(text) ==
    IF text.kind # "object" THEN Raise("JSONDecodeError")
    ELSE Ok([i \in 1 .. Len(text.items) |->
                [k |-> text.items[i].k, v |-> PyScalar(text.items[i].v)]])

\* json.loads of the data field: the document, or JSONDecodeError.
json_loads_data(text) ==
    IF text.kind \in {"array", "object"} THEN Ok(text) ELSE Raise("JSONDecodeError")

\* pd.DataFrame(document).columns: the keys of the records of an array, the
\* outer keys of an object of objects.
FrameColumns(doc) ==
    IF doc.kind = "array"
    THEN UNION {{doc.items[i][j].k : j \in 1 .. Len(doc.items[i])} : i \in 1 .. Len(doc.items)}
    ELSE {doc.items[j].k : j \in 1 .. Len(doc.items)}

----------------------------------------------------------------------------
(* The session state under 'streamflow_out': absent, the decoded mapping,  *)
(* or a str.                                                               *)

StateDict(d) == [kind |-> "dict", r |-> d]

StateStr(text) == [kind |-> "str", text |-> text]

\* A lookup that answers a missing key with a placeholder response.
StateGetOrDefault(sv) ==
    IF sv.kind = "absent"
    THEN Ok(StateDict(GeoglowsAgentOutput("get_return_periods", 0, GarbageText)))
    ELSE Ok(sv)

\* tool_context.state['streamflow_out']
StateGet(sv) == IF sv.kind = "absent" THEN Raise("KeyError") ELSE Ok(sv)

----------------------------------------------------------------------------
(* plot_streamflow.                                                        *)

NoColumn == "None"

\* The return-periods test against a mistyped name.
IsReturnPeriodsMistyped(data_request) == data_request = "return_periods"

IsReturnPeriods(data_request) == data_request = "get_return_periods"

\* The dispatch on data_request: the column chosen, what is drawn on the current
\* figure, and the failure of a library call, if any.
Dispatch(data_request, mcp_response, columns) ==
    CASE data_request = "get_forecasted_streamflow" ->
            IF "flow_median" \notin columns
            THEN [col |-> "flow_median", drew |-> {}, out |-> Raise("KeyError")]
            ELSE IF "flow_uncertainty_lower" \notin columns
                    \/ "flow_uncertainty_upper" \notin columns
            THEN [col |-> "flow_median", drew |-> {"flow_median"}, out |-> Raise("KeyError")]
            ELSE [col |-> "flow_median", drew |-> {"flow_median", "uncertainty"},
                  out |-> Ok("None")]
      [] data_request = "get_historical_streamflow" ->
            LET reach_id == GetItem(mcp_response, "reach_id")
            IN  IF ~reach_id.ok
                THEN [col |-> NoColumn, drew |-> {}, out |-> reach_id]
                ELSE IF PyStrOf(reach_id.val) \notin columns
                THEN [col |-> PyStrOf(reach_id.val), drew |-> {}, out |-> Raise("KeyError")]
                ELSE [col |-> PyStrOf(reach_id.val), drew |-> {PyStrOf(reach_id.val)},
                      out |-> Ok("None")]
      [] data_request = "get_forecast_stats" ->
            [col |-> "flow_avg", drew |-> {}, out |-> Ok("None")]
      [] OTHER ->
            [col |-> NoColumn, drew |-> {}, out |-> Ok("None")]

\* The save without the test that the column is in the frame.
SavedPartsUnchecked(col_to_plot, columns, content) ==
    IF col_to_plot # NoColumn
    THEN <<[filename |-> "geoglows_plot.png", mime_type |-> "image/png", data |-> content]>>
    ELSE <<>>

\* The save under a name made from the column plotted.
SavedPartsByColumn(col_to_plot, columns, content) ==
    IF col_to_plot # NoColumn /\ col_to_plot \in columns
    THEN <<[filename |-> col_to_plot \o ".png", mime_type |-> "image/png", data |-> content]>>
    ELSE <<>>

\* The guarded save: the part saved under the fixed name, or nothing.
SavedParts(col_to_plot, columns, content) ==
    IF col_to_plot # NoColumn /\ col_to_plot \in columns
    THEN <<[filename |-> "geoglows_plot.png", mime_type |-> "image/png", data |-> content]>>
    ELSE <<>>

\* What a call does: its outcome, the data_request it read, whether it parsed the
\* data field, the column chosen, what it drew, the figure it leaves and the
\* parts it saved.
Effect(outcome, request, parsed, col, drew, fig, saved) ==
    [outcome |-> outcome, request |-> request, parsed |-> parsed, col |-> col,
     drew |-> drew, figure |-> fig, saved |-> saved]

\* Lines 305-349: parse the data, index by time, dispatch, save.
PlotBody(mcp_response, data_request, fig) ==
    LET data == GetItem(mcp_response, "data")
        doc == IF data.ok THEN json_loads_data(data.val.v) ELSE data
    IN  IF ~doc.ok
        THEN Effect(doc, data_request, data.ok, NoColumn, {}, fig, <<>>)
        ELSE LET columns == FrameColumns(doc.val) \ {"time"}
                 d == Dispatch(data_request, mcp_response, columns)
                 saved == SavedParts(d.col, columns, fig \cup d.drew)
             IN  IF ~d.out.ok
                 THEN Effect(d.out, data_request, TRUE, d.col, d.drew, fig \cup d.drew, <<>>)
                 ELSE Effect(Ok("None"), data_request, TRUE, d.col, d.drew,
                             IF saved = <<>> THEN fig \cup d.drew ELSE {}, saved)

plot_streamflow(sv, fig) ==
    LET looked == StateGet(sv)
        mcp_response == IF ~looked.ok THEN looked
                        ELSE IF looked.val.kind = "str" THEN json_loads_dict(looked.val.text)
                        ELSE Ok(looked.val.r)
        data_request == IF mcp_response.ok THEN GetItem(mcp_response.val, "data_request")
                        ELSE mcp_response
    IN  IF ~data_request.ok
        THEN Effect(data_request, "-", FALSE, NoColumn, {}, fig, <<>>)
        ELSE IF IsReturnPeriods(data_request.val.v)
        THEN Effect(Ok("None"), data_request.val.v, FALSE, NoColumn, {}, fig, <<>>)
        ELSE PlotBody(mcp_response.val, data_request.val.v, fig)

----------------------------------------------------------------------------
(* The root agent's tools: the data sub-agent and plot_streamflow.         *)

AgentRows == 1

AgentRivers == {7}

DataRequests == ToolOpNames \cup {"get_reach_id"}

\* The upstream answers the sub-agent meets: a failure, or a frame of at most
\* AgentRows rows at the instants 0, 1, ...
AgentSees(up) ==
    ~up.ok \/ (/\ NRows(up.val) <= AgentRows
               /\ \A i \in 1 .. NRows(up.val) :
                     up.val.index.vals[i].t = "Timestamp" => up.val.index.vals[i].v = i - 1)

\* The data text the sub-agent puts in its response: the tool's text as it came,
\* the tool's records cut down to time and flow_median, or a text that is no JSON.
Payload(mode, out) ==
    CASE mode = "verbatim" -> out.val
      [] mode = "cut" ->
            [kind |-> "array",
             items |-> [i \in 1 .. Len(out.val.items) |->
                          SelectSeq(out.val.items[i],
                                    LAMBDA m : m.k \in {"time", "flow_median"})]]
      [] mode = "garbage" -> GarbageText

\* What the sub-agent can make of a tool result: nothing but garbage of a
\* failure; a cut only of records that have a flow_median.
PayloadModes(out) ==
    IF ~out.ok THEN {"garbage"}
    ELSE IF out.val.kind = "array" /\ "flow_median" \in FrameColumns(out.val)
    THEN {"verbatim", "cut", "garbage"}
    ELSE {"verbatim", "garbage"}

\* output_key with output_schema: the state holds the validated mapping or the
\* response's JSON text.
Stored(enc, d) == IF enc = "dict" THEN StateDict(d) ELSE StateStr(json_dumps_dict(d))

\* The sub-agent has called one tool with the answer `up`, got `r`, and gives its
\* final response, which the framework writes to the session state: the
\* structured response, or the raw final text when that is no JSON.
SubAgentResponds(op, start_date, up, r) ==
    /\ \/ \E data_request \in DataRequests, reach_id \in RiverIds,
             mode \in PayloadModes(r.out), enc \in {"dict", "str"} :
             state' = Stored(enc, GeoglowsAgentOutput(data_request, reach_id,
                                                     Payload(mode, r.out)))
       \/ state' = StateStr(GarbageText)
    /\ tool' = [name |-> "geoglows_data_agent", op |-> op, start_date |-> start_date,
                up |-> up, out |-> r.out]
    /\ retained' = r.mem

geoglows_data_agent ==
    /\ tool = NoTool
    /\ \E river_id \in AgentRivers :
          \/ \E up \in {u \in data_forecast(river_id) : AgentSees(u)} :
                SubAgentResponds("get_forecasted_streamflow", ArgNone, up,
                                 get_forecasted_streamflow(retained, river_id, ArgNone, up))
          \/ \E start_date \in {ArgNone, ArgBad} :
             \E up \in {u \in data_retrospective(river_id) : AgentSees(u)} :
                SubAgentResponds("get_historical_streamflow", start_date, up,
                                 get_historical_streamflow(retained, river_id,
                                                           start_date, ArgNone, up))
          \/ \E up \in {u \in data_forecast_stats(river_id) : AgentSees(u)} :
                SubAgentResponds("get_forecast_stats", ArgNone, up,
                                 get_forecast_stats(retained, river_id, ArgNone, up))
          \/ \E up \in data_return_periods(river_id) :
                SubAgentResponds("get_return_periods", ArgNone, up,
                                 get_return_periods(retained, river_id, up))
    /\ UNCHANGED <<call, served, artifacts, figure>>

PlotStreamflow ==
    /\ tool = NoTool
    /\ LET e == plot_streamflow(state, figure)
       IN  /\ Len(artifacts) + Len(e.saved) <= MaxArtifacts
           /\ tool' = [name |-> "plot_streamflow", input |-> state, before |-> figure,
                       effect |-> e]
           /\ figure' = e.figure
           /\ artifacts' = artifacts \o e.saved
    /\ UNCHANGED <<call, retained, served, state>>

\* The tool's result goes back to the root agent.
ToolReturns ==
    /\ tool # NoTool
    /\ tool' = NoTool
    /\ UNCHANGED <<call, retained, served, state, artifacts, figure>>

Next ==
    \/ geoglows_data_agent
    \/ PlotStreamflow
    \/ ToolReturns

Spec == Init /\ [][Next]_vars

----------------------------------------------------------------------------
(* Properties of the server.                                               *)

\* What a record must hold for the value x of a column of dtype d.
ExpectedValue(d, x) ==
    IF d \in {"datetime64[ns]", "datetime64[ns, UTC]"}
    THEN IF x.t = "Timestamp" THEN [t |-> "isostr", v |-> x.v] ELSE PyNone
    ELSE x

\* C1: whenever dataframe_to_json_serializable returns, the list has one record
\* per row of the frame, in row order; each record has the former index first and
\* then the columns; a timestamp of a datetime column (the former index included)
\* is its ISO-8601 string, a missing timestamp is None, and every value of a
\* non-datetime column is the frame's value.
C1_RecordsMatchRows ==
    (call.op = "dataframe_to_json_serializable" /\ call.out.ok) =>
        LET df == call.req.df
            src == <<df.index>> \o df.cols
            records == call.out.val
        IN  /\ Len(records) = Len(df.index.vals)
            /\ \A i \in 1 .. Len(records) :
                  /\ Len(records[i]) = Len(src)
                  /\ records[i][1].k = (IF df.index.name = "" THEN "index" ELSE df.index.name)
                  /\ \A j \in 1 .. Len(src) :
                        /\ j > 1 => records[i][j].k = src[j].name
                        /\ records[i][j].v = ExpectedValue(src[j].dtype, src[j].vals[i])

\* A conversion of a frame with two rows or more in which the index has a missing
\* timestamp and a datetime column has a timestamp has returned.
C1_Witness ==
    /\ call.op = "dataframe_to_json_serializable"
    /\ call.out.ok
    /\ Len(call.out.val) >= 2
    /\ \E i \in 1 .. Len(call.out.val) : call.req.df.index.vals[i].t = "NaT"
    /\ \E i \in 1 .. Len(call.out.val) : call.req.df.cols[1].vals[i].t = "Timestamp"

\* A date bound that is given: the YYYYMMDD text of a day.
Given(a) == a.t = "date"

\* Instant t lies in the window of the request: at or after midnight of start_date
\* and at or before midnight of end_date, each bound counting only when given.
InWindow(req, t) ==
    /\ Given(req.a) => 2 * req.a.v <= t
    /\ Given(req.b) => t <= 2 * req.b.v

\* C2: get_historical_streamflow, when the upstream call succeeds and no bound is
\* an unparsable text, returns exactly the upstream records whose timestamp lies
\* in the window, in upstream order, with timestamp and flow of the record; with
\* no bound every record is returned, and with start_date after end_date the
\* result is the empty list and not an error.
C2_HistoricalWindow ==
    (/\ call.op = "get_historical_streamflow"
     /\ call.req.up.ok
     /\ call.req.a.t # "notadate"
     /\ call.req.b.t # "notadate") =>
        LET df == call.req.up.val
            keep == {i \in 1 .. Len(df.index.vals) : InWindow(call.req, df.index.vals[i].v)}
        IN  /\ call.out.ok
            /\ call.out.val.kind = "array"
            /\ Len(call.out.val.items) = Cardinality(keep)
            /\ \A k \in 1 .. Len(call.out.val.items) :
                  \E i \in keep :
                     /\ Cardinality({h \in keep : h < i}) = k - 1
                     /\ call.out.val.items[k] =
                           <<[k |-> "time",
                              v |-> [t |-> "string:iso", v |-> df.index.vals[i].v]],
                             [k |-> ToString(call.req.river_id),
                              v |-> [t |-> "number", v |-> df.cols[1].vals[i].v]]>>
            /\ (~Given(call.req.a) /\ ~Given(call.req.b)) =>
                  Len(call.out.val.items) = Len(df.index.vals)
            /\ (Given(call.req.a) /\ Given(call.req.b) /\ call.req.a.v > call.req.b.v) =>
                  call.out.val.items = <<>>

\* A historical call with both bounds given has returned a record that lies on
\* the end bound and has dropped another upstream record.
C2_Witness ==
    /\ call.op = "get_historical_streamflow"
    /\ call.req.up.ok
    /\ Given(call.req.a)
    /\ Given(call.req.b)
    /\ call.out.ok
    /\ Len(call.out.val.items) = 1
    /\ call.out.val.items[1][1].v.v = 2 * call.req.b.v
    /\ Len(call.req.up.val.index.vals) = 2

\* The response of a server that has retained nothing, for the same request.
FreshResponse(req) ==
    CASE req.op = "get_forecasted_streamflow" ->
            get_forecasted_streamflow({}, req.river_id, req.a, req.up).out
      [] req.op = "get_historical_streamflow" ->
            get_historical_streamflow({}, req.river_id, req.a, req.b, req.up).out
      [] req.op = "get_forecast_stats" ->
            get_forecast_stats({}, req.river_id, req.a, req.up).out
      [] req.op = "get_return_periods" ->
            get_return_periods({}, req.river_id, req.up).out

\* C7: the server module retains nothing between calls, and the response of every
\* call, whatever calls came before it, is the response a server that has served
\* nothing gives to the same arguments and the same upstream answer.
C7_NothingRetained ==
    /\ retained = {}
    /\ call.op \in ToolOpNames => call.out = FreshResponse(call.req)

\* A tool call has been answered with data after earlier calls were served.
C7_Witness ==
    /\ served >= 1
    /\ call.op \in ToolOpNames
    /\ call.out.ok

----------------------------------------------------------------------------
(* Properties of the agent's tools.                                        *)

PlotCall == tool.name = "plot_streamflow"

TimeSeriesRequests ==
    {"get_forecasted_streamflow", "get_historical_streamflow", "get_forecast_stats"}

\* The state value holds a response: the mapping, or a text that spells one.
HoldsResponse(sv) == sv.kind = "dict" \/ (sv.kind = "str" /\ sv.text.kind = "object")

\* The response a state value holds, as the mapping.
ResponseIn(sv) ==
    IF sv.kind = "dict" THEN sv.r
    ELSE [i \in 1 .. Len(sv.text.items) |->
             [k |-> sv.text.items[i].k,
              v |-> [t |-> IF sv.text.items[i].v.t = "number" THEN "int" ELSE "str",
                     v |-> sv.text.items[i].v.v]]]

Field(sv, key) ==
    LET r == ResponseIn(sv) IN r[CHOOSE i \in 1 .. Len(r) : r[i].k = key].v.v

\* The data_request of the response a state value holds, "-" when it holds none.
RequestIn(sv) == IF HoldsResponse(sv) THEN Field(sv, "data_request") ELSE "-"

\* The data field spells a JSON document.
DataIsJson(sv) == Field(sv, "data").kind \in {"array", "object"}

\* The columns of the frame made of the data field, the time column taken out
\* as the index.
ColumnsIn(sv) ==
    LET doc == Field(sv, "data")
    IN  (IF doc.kind = "array"
         THEN {c \in {"time", "flow_median", "flow_uncertainty_lower",
                      "flow_uncertainty_upper", "flow_avg", "7", "8"} :
                  \E i \in 1 .. Len(doc.items) : \E j \in 1 .. Len(doc.items[i]) :
                      doc.items[i][j].k = c}
         ELSE {doc.items[j].k : j \in 1 .. Len(doc.items)}) \ {"time"}

\* The column the dispatch chooses for a time-series request.
ChosenColumn(sv) ==
    CASE RequestIn(sv) = "get_forecasted_streamflow" -> "flow_median"
      [] RequestIn(sv) = "get_historical_streamflow" -> ToString(Field(sv, "reach_id"))
      [] RequestIn(sv) = "get_forecast_stats" -> "flow_avg"

\* The exception the first failing library call of plot_streamflow raises on this
\* state value, "-" when none fails.
LibraryFailure(sv) ==
    IF sv.kind = "absent" THEN "KeyError"
    ELSE IF ~HoldsResponse(sv) THEN "JSONDecodeError"
    ELSE IF RequestIn(sv) = "get_return_periods" THEN "-"
    ELSE IF ~DataIsJson(sv) THEN "JSONDecodeError"
    ELSE IF RequestIn(sv) = "get_forecasted_streamflow"
            /\ ~({"flow_median", "flow_uncertainty_lower", "flow_uncertainty_upper"}
                    \subseteq ColumnsIn(sv))
    THEN "KeyError"
    ELSE IF RequestIn(sv) = "get_historical_streamflow" /\ ChosenColumn(sv) \notin ColumnsIn(sv)
    THEN "KeyError"
    ELSE "-"

\* C3: a failure of the underlying library call propagates unmodified.  A tool
\* operation whose upstream call fails ends with that very failure, and one whose
\* date text does not parse ends with the parser's ValueError; plot_streamflow ends
\* with the exception of its first failing library call, and returns normally
\* only when none fails.
C3_FailuresPropagate ==
    /\ (tool.name = "geoglows_data_agent" /\ ~tool.up.ok) => tool.out = tool.up
    /\ (tool.name = "geoglows_data_agent" /\ tool.up.ok /\ tool.start_date.t = "notadate") =>
          (~tool.out.ok /\ tool.out.err = "ValueError")
    /\ PlotCall =>
          /\ tool.effect.outcome.ok <=> LibraryFailure(tool.input) = "-"
          /\ ~tool.effect.outcome.ok => tool.effect.outcome.err = LibraryFailure(tool.input)

\* A tool operation has ended with the upstream library's failure.
C3_Witness ==
    /\ tool.name = "geoglows_data_agent"
    /\ tool.op = "get_forecast_stats"
    /\ ~tool.up.ok
    /\ ~tool.out.ok

\* C4: every artifact in the store has the name 'geoglows_plot.png' and the MIME
\* type image/png, and a call of plot_streamflow saves at most one part, under
\* that name and type.
C4_FixedArtifactName ==
    /\ \A i \in 1 .. Len(artifacts) :
          artifacts[i].filename = "geoglows_plot.png" /\ artifacts[i].mime_type = "image/png"
    /\ PlotCall =>
          /\ Len(tool.effect.saved) <= 1
          /\ \A i \in 1 .. Len(tool.effect.saved) :
                /\ tool.effect.saved[i].filename = "geoglows_plot.png"
                /\ tool.effect.saved[i].mime_type = "image/png"

\* A call of plot_streamflow has saved a part and the store holds it.
C4_Witness ==
    /\ PlotCall
    /\ Len(tool.effect.saved) = 1
    /\ Len(artifacts) >= 1

\* C5: whenever a call of plot_streamflow for a time-series request saves the
\* artifact, the column chosen for the request has been drawn in that call and is
\* on the figure saved.
C5_DrawnBeforeSaved ==
    (PlotCall /\ tool.effect.saved # <<>> /\ RequestIn(tool.input) \in TimeSeriesRequests) =>
        /\ ChosenColumn(tool.input) \in tool.effect.drew
        /\ ChosenColumn(tool.input) \in tool.effect.saved[1].data

\* C6: a call of plot_streamflow on a response whose data_request is
\* get_return_periods returns normally, has not parsed the data field, has drawn
\* nothing and saved nothing, and leaves the session state, the artifact store and
\* the current figure as they were.
C6_ReturnPeriodsSkipped ==
    [][(tool = NoTool /\ tool'.name = "plot_streamflow"
            /\ RequestIn(state) = "get_return_periods") =>
          /\ tool'.effect.outcome.ok
          /\ ~tool'.effect.parsed
          /\ tool'.effect.drew = {}
          /\ tool'.effect.saved = <<>>
          /\ state' = state
          /\ artifacts' = artifacts
          /\ figure' = figure]_vars

\* plot_streamflow has returned on a return-periods response whose data field is
\* no JSON, with a figure left open by an earlier call.
C6_Witness ==
    /\ PlotCall
    /\ RequestIn(tool.input) = "get_return_periods"
    /\ ~DataIsJson(tool.input)
    /\ tool.effect.outcome.ok
    /\ figure # {}

\* C8: the artifact store is non-empty only when the data sub-agent has written
\* 'streamflow_out'; a call of plot_streamflow with the key absent fails and saves
\* nothing.
C8_DataBeforePlot ==
    /\ artifacts # <<>> => state.kind # "absent"
    /\ (PlotCall /\ tool.input.kind = "absent") =>
          (~tool.effect.outcome.ok /\ tool.effect.saved = <<>>)

\* plot_streamflow has been called with the key absent.
C8_Witness ==
    /\ PlotCall
    /\ tool.input.kind = "absent"
    /\ ~tool.effect.outcome.ok
    /\ artifacts = <<>>

\* C9: a call of plot_streamflow saves a part only if the data_request is one of
\* the three time-series requests and the column chosen for it is a column of the
\* parsed data.
C9_SaveOnlyKnownColumn ==
    (PlotCall /\ tool.effect.saved # <<>>) =>
        /\ RequestIn(tool.input) \in TimeSeriesRequests
        /\ DataIsJson(tool.input)
        /\ ChosenColumn(tool.input) \in ColumnsIn(tool.input)

\* A historical response whose reach column is in the data has been plotted and
\* saved.
C9_Witness ==
    /\ PlotCall
    /\ RequestIn(tool.input) = "get_historical_streamflow"
    /\ tool.effect.saved # <<>>

\* The same response in the other form: the text of a mapping, the mapping of a
\* text.
OtherForm(sv) ==
    IF sv.kind = "dict" THEN StateStr(json_dumps_dict(sv.r)) ELSE StateDict(ResponseIn(sv))

\* C10: a call of plot_streamflow on a state value that holds a response ends as
\* the call on the other form of the same response would, the figure being the
\* same: same return or exception, same parts saved, same figure left.
C10_SameForTextAndMapping ==
    (PlotCall /\ HoldsResponse(tool.input)) =>
        LET other == plot_streamflow(OtherForm(tool.input), tool.before)
        IN  /\ other.outcome.ok = tool.effect.outcome.ok
            /\ other.outcome.err = tool.effect.outcome.err
            /\ other.saved = tool.effect.saved
            /\ other.figure = tool.effect.figure

\* A historical response held as JSON text has been plotted and saved.
C10_Witness ==
    /\ PlotCall
    /\ tool.input.kind = "str"
    /\ RequestIn(tool.input) = "get_historical_streamflow"
    /\ tool.effect.saved # <<>>

====
